---- MODULE Spec2Model ----
(***************************************************************************)
(* Transcript retrieval pipeline of epochly-backend:                       *)
(*   app/services/youtube_service.py                                       *)
(* extract_video_id, the static cache, the primary captions client, the    *)
(* pytube / mirror / scraping fallbacks and get_youtube_transcript.        *)
(* Strings are TLA+ strings; a character is a string of length 1.          *)
(***************************************************************************)
EXTENDS Integers, Sequences, FiniteSets, TLC

(***************************************************************************)
(* Bounds of the model.                                                    *)
(***************************************************************************)
\* how many characters a URL token may exceed the identifier length by
MaxExtra == 1
\* longest list of caption segments a primary sub-attempt returns
MaxSegs == 2
\* most script tags with a caption track URL on a scraped page
MaxFiles == 2
\* how many contributions and upvotes the endpoints commit
MaxWrites == 3
\* how many database sessions run upvote_transcript concurrently
MaxSessions == 2

(***************************************************************************)
(* Program constants.                                                      *)
(***************************************************************************)
\* len(video_id) == 11, {11} in the regular expression
IdLen == 11
\* len(transcript_text) < 50
MinLen == 50
\* max_retries of the pytube connection loop
PytubeMaxRetries == 3
\* max_retries of the scraping page fetch loop
ScrapeMaxRetries == 2

(***************************************************************************)
(* Python string primitives.                                               *)
(***************************************************************************)
Char(s, i) == SubSeq(s, i, i)

\* s[i:i+len(sub)] == sub, positions counted from 1
IsAt(s, sub, i) ==
    /\ i >= 1
    /\ i + Len(sub) - 1 <= Len(s)
    /\ SubSeq(s, i, i + Len(sub) - 1) = sub

\* str.find(sub, from): the least position >= from where sub occurs, 0 when none
Find(s, sub, from) ==
    LET hits == { i \in from..Len(s) : IsAt(s, sub, i) }
    IN  IF hits = {} THEN 0
        ELSE CHOOSE i \in hits : \A j \in hits : i <= j

\* sub in s
Contains(s, sub) == Find(s, sub, 1) # 0

\* s[from:] (from counted from 1)
From(s, from) == SubSeq(s, from, Len(s))

RECURSIVE Rep(_, _)
\* c * n
Rep(c, n) ==
    IF n = 0 THEN ""
    ELSE IF n % 2 = 0 THEN LET half == Rep(c, n \div 2) IN half \o half
    ELSE c \o Rep(c, n - 1)

IsSpace(c) == c \in {" ", "\n", "\t"}

RECURSIVE LStrip(_)
LStrip(s) == IF Len(s) > 0 /\ IsSpace(Char(s, 1)) THEN LStrip(From(s, 2)) ELSE s

RECURSIVE RStrip(_)
RStrip(s) ==
    IF Len(s) > 0 /\ IsSpace(Char(s, Len(s)))
    THEN RStrip(SubSeq(s, 1, Len(s) - 1)) ELSE s

\* str.strip()
Strip(s) == LStrip(RStrip(s))

(***************************************************************************)
(* extract_video_id                                                        *)
(***************************************************************************)
\* the character class [a-zA-Z0-9_-]
IdChars ==
    { "a","b","c","d","e","f","g","h","i","j","k","l","m",
      "n","o","p","q","r","s","t","u","v","w","x","y","z",
      "A","B","C","D","E","F","G","H","I","J","K","L","M",
      "N","O","P","Q","R","S","T","U","V","W","X","Y","Z",
      "0","1","2","3","4","5","6","7","8","9","_","-" }

IsIdToken(t) == Len(t) = IdLen /\ \A i \in 1..IdLen : Char(t, i) \in IdChars

NoId == [ok |-> FALSE, id |-> ""]
GotId(t) == [ok |-> TRUE, id |-> t]

\* the substring after `marker`, up to the next `delim` or the end of the string
Positional(url, marker, delim) ==
    LET start_pos == Find(url, marker, 1) + Len(marker)
        end_pos == Find(url, delim, start_pos)
    IN  IF end_pos # 0 THEN SubSeq(url, start_pos, end_pos - 1)
        ELSE From(url, start_pos)

\* the alternatives of the fallback pattern, in the pattern's order
RegexMarkers == << "youtube.com/watch?v=", "youtu.be/", "youtube.com/embed/" >>

\* re.search(pattern, url): the leftmost position where one alternative is
\* followed by IdLen characters of the class; group(1) is those characters
RegexSearch(url) ==
    LET MatchAt(i, m) ==
            /\ IsAt(url, m, i)
            /\ i + Len(m) + IdLen - 1 <= Len(url)
            /\ IsIdToken(SubSeq(url, i + Len(m), i + Len(m) + IdLen - 1))
        hits == { i \in 1..Len(url) : \E k \in 1..Len(RegexMarkers) : MatchAt(i, RegexMarkers[k]) }
    IN  IF hits = {} THEN NoId
        ELSE LET i == CHOOSE h \in hits : \A j \in hits : h <= j
                 k == CHOOSE n \in 1..Len(RegexMarkers) :
                        /\ MatchAt(i, RegexMarkers[n])
                        /\ \A n2 \in 1..(n - 1) : ~MatchAt(i, RegexMarkers[n2])
                 m == RegexMarkers[k]
             IN  GotId(SubSeq(url, i + Len(m), i + Len(m) + IdLen - 1))

\* which branch of the if / elif chain is taken
Branch(url) ==
    IF Contains(url, "youtu.be/") THEN "short"
    ELSE IF Contains(url, "youtube.com/watch") /\ Contains(url, "v=") THEN "watch"
    ELSE IF Contains(url, "youtube.com/embed/") THEN "embed"
    ELSE "none"

\* the video_id the taken branch computes ("" when no branch is taken)
BranchToken(url) ==
    CASE Branch(url) = "short" -> Positional(url, "youtu.be/", "?")
      [] Branch(url) = "watch" -> Positional(url, "v=", "&")
      [] Branch(url) = "embed" -> Positional(url, "youtube.com/embed/", "?")
      [] OTHER -> ""

\* the result of extract_video_id: GotId(id), or NoId when it raises ValueError
extract_video_id(url) ==
    IF Branch(url) # "none" /\ Len(BranchToken(url)) = IdLen
    THEN GotId(BranchToken(url))
    ELSE RegexSearch(url)

(***************************************************************************)
(* Request URLs: a head, a token and a tail.                               *)
(***************************************************************************)
ShortHeads == { "https://youtu.be/", "youtu.be/" }
WatchHeads == { "https://www.youtube.com/watch?v=", "youtube.com/watch?v=" }
EmbedHeads == { "https://www.youtube.com/embed/" }
OtherHeads ==
    { "https://www.youtube.com/watch?t=1&v=",
      "https://www.youtube.com/watch?rev=1&v=",
      "https://www.youtube.com/watch?list=",
      "https://www.youtube.com/v/",
      "https://example.com/",
      "" }
Heads == ShortHeads \cup WatchHeads \cup EmbedHeads \cup OtherHeads

\* identifiers: two keys of the static cache and two other ones
IdTokens == { "iCvmsMzlF7o", "bBC-nXj3Ng4", "dQw4w9WgXcQ", "8S0_DjFBj-o" }
\* an identifier followed by 1..MaxExtra further characters of the class
LongTokens == { t \o Rep("Z", k) : t \in {"dQw4w9WgXcQ", "iCvmsMzlF7o"}, k \in 1..MaxExtra }
\* tokens that are too short, and IdLen characters outside the class
ShortTokens == { "", "dQw4w9WgXc" }
OddTokens == { "hello world" }
Tokens == IdTokens \cup LongTokens \cup ShortTokens \cup OddTokens

QueryTails == { "", "?si=abc", "?t=10" }
AmpTails == { "", "&t=10", "&feature=youtu.be" }
\* tails that carry another marker
MarkerTails ==
    { "&u=youtu.be/x", "&u=youtu.be/8S0_DjFBj-o", "?u=youtu.be/x", "?u=youtu.be/8S0_DjFBj-o" }
Tails == QueryTails \cup AmpTails \cup MarkerTails

URLs == { h \o t \o s : h \in Heads, t \in Tokens, s \in Tails }

\* the URLs of the requests made to get_youtube_transcript
RequestURLs ==
    { "https://youtu.be/iCvmsMzlF7o?si=abc",
      "https://www.youtube.com/watch?v=bBC-nXj3Ng4&t=10",
      "https://www.youtube.com/watch?v=dQw4w9WgXcQ",
      "https://www.youtube.com/embed/8S0_DjFBj-o",
      "https://youtu.be/dQw4w9WgXc",
      "https://example.com/" }

(***************************************************************************)
(* The static cache.  A cached text is named by its key; the texts of the  *)
(* table are several hundred characters long.                              *)
(***************************************************************************)
CachedIds == { "iCvmsMzlF7o", "Yocja_N5s1I", "bBC-nXj3Ng4", "riXcZT2ICjA", "ZizdB0TgAVM" }

CACHED_TRANSCRIPTS == [ id \in CachedIds |-> "cached transcript of " \o id ]


(***************************************************************************)
(* Caption segments and their concatenation.                               *)
(***************************************************************************)
LongText(c) == Rep(c, MinLen + 10)

\* texts of caption segments, one of them with whitespace at both ends
SegTexts == { "Hello", "world", "", " so\n", LongText("p") }

RECURSIVE SeqsUpTo(_, _)
\* the sequences over S of length at most n
SeqsUpTo(S, n) ==
    IF n = 0 THEN { << >> }
    ELSE LET shorter == SeqsUpTo(S, n - 1)
         IN  shorter \cup { Append(q, x) : q \in { r \in shorter : Len(r) = n - 1 }, x \in S }

SegLists == SeqsUpTo(SegTexts, MaxSegs)

RECURSIVE Accumulate(_, _)
\* for entry in transcript_list: transcript_text += entry['text'] + " "
Accumulate(text, segs) ==
    IF segs = << >> THEN text
    ELSE Accumulate(text \o Head(segs) \o " ", Tail(segs))

\* the concatenation without the final strip()
Combine_Unstripped(segs) == Accumulate("", segs)

\* the transcript a primary sub-attempt builds from its segments
Combine(segs) == Strip(Accumulate("", segs))

(***************************************************************************)
(* Exceptions and outcomes.                                                *)
(***************************************************************************)
\* exception types the captions service raises
PrimaryExceptions == { "TranscriptsDisabled", "NoTranscriptFound", "Exception" }

\* the two exception types the outer try block has clauses of its own for
StructuralErrors == { "TranscriptsDisabled", "NoTranscriptFound" }

\* `except Exception` catches every exception type of the model
CaughtByExceptException(exc) == exc \in PrimaryExceptions \cup { "ValueError", "StopIteration" }

MsgInvalidUrl == "Invalid YouTube URL format: Failed to extract video ID from URL"
MsgNoTranscript == "No transcript available for this video after all attempts. This video likely doesn't have captions enabled."
MsgDisabled == "Transcripts are disabled for this video and alternative methods failed."
MsgNotFound == "No transcript found for this video. It might not have captions available."

Returned(text, id) ==
    [kind |-> "return", transcript |-> text, video_id |-> id, exc |-> "", msg |-> ""]
Raised(exc, msg) ==
    [kind |-> "raise", transcript |-> "", video_id |-> "", exc |-> exc, msg |-> msg]

\* responses of the captions service
PrimaryResponses ==
    [kind : {"raise"}, exc : PrimaryExceptions, segs : { << >> }]
    \cup [kind : {"segments"}, exc : {""}, segs : SegLists]
\* list_transcripts may also give no track at all: next(iter(...)) raises StopIteration
ListResponses ==
    PrimaryResponses \cup [kind : {"raise"}, exc : {"StopIteration"}, segs : { << >> }]

NoResp == [kind |-> "none"]

(***************************************************************************)
(* pytube: caption tracks and their XML.                                   *)
(***************************************************************************)
RECURSIVE Replace(_, _, _)
\* str.replace(old, new)
Replace(s, old, new) ==
    IF Len(s) < Len(old) THEN s
    ELSE IF IsAt(s, old, 1) THEN new \o Replace(From(s, Len(old) + 1), old, new)
    ELSE Char(s, 1) \o Replace(From(s, 2), old, new)

\* part.replace('&amp;', '&').replace('&lt;', '<').replace('&gt;', '>')
Clean(part) == Replace(Replace(Replace(part, "&amp;", "&"), "&lt;", "<"), "&gt;", ">")

RECURSIVE CleanAll(_)
CleanAll(parts) ==
    IF parts = << >> THEN << >> ELSE << Clean(Head(parts)) >> \o CleanAll(Tail(parts))

\* the text get_transcript_with_pytube builds from the <text> parts of a track
PytubeText(parts) == Strip(Accumulate("", CleanAll(parts)))

\* language codes start with 'en' or not
IsEnglish(code) == IsAt(code, "en", 1)

\* the track chosen: the first English one, else the first one
ChooseTrack(tracks) ==
    LET en == { i \in 1..Len(tracks) : IsEnglish(tracks[i].code) }
    IN  IF en # {} THEN tracks[CHOOSE i \in en : \A j \in en : i <= j]
        ELSE tracks[1]

PartLists == { << >>, << "a &amp; b" >>, << LongText("y"), "&lt;end&gt;" >> }
TrackLists ==
    { << >> }
    \cup { << [code |-> c, parts |-> p] >> : c \in {"en-US", "de"}, p \in PartLists }
    \cup { << [code |-> "de", parts |-> << LongText("d") >>], [code |-> "en", parts |-> p] >> : p \in PartLists }

\* what yt.captions gives: an exception, or the caption tracks
CaptionResponses ==
    [kind : {"exception"}, tracks : { << >> }] \cup [kind : {"tracks"}, tracks : TrackLists]

\* the text pytube returns, "" when the tier raises
PytubeResult(r) ==
    IF r.kind # "tracks" \/ Len(r.tracks) = 0 THEN ""
    ELSE PytubeText(ChooseTrack(r.tracks).parts)

(***************************************************************************)
(* The mirrors.                                                            *)
(***************************************************************************)
\* the apis list
Mirrors == << "tube.demarches.tech", "inv.bp.mutahar.rocks", "vid.puffyan.us" >>

RECURSIVE Join(_, _)
\* sep.join(parts)
Join(sep, parts) ==
    IF parts = << >> THEN ""
    ELSE IF Len(parts) = 1 THEN parts[1]
    ELSE parts[1] \o sep \o Join(sep, Tail(parts))

\* dict.get(key, default) on a JSON object
Get(obj, key, default) == IF key \in DOMAIN obj THEN obj[key] ELSE default

RECURSIVE Labels(_)
\* [cap.get("label", "") for cap in captions]
Labels(caps) ==
    IF caps = << >> THEN << >> ELSE << Get(Head(caps), "label", "") >> \o Labels(Tail(caps))

\* the "extract" function of mirror k applied to a JSON object
ExtractText(k, obj) ==
    IF k \in {1, 2} THEN Get(obj, "description", "")
    ELSE Join("\n", Labels(Get(obj, "captions", << >>)))

MirrorTexts == { "", Rep("m", 40), Rep("m", MinLen - 1), Rep("m", MinLen), Rep("m", 200) }

CaptionLists ==
    { << >>,
      << [label |-> Rep("c", 24)], [label |-> Rep("d", 24)] >>,
      << [label |-> Rep("c", 24)], [label |-> Rep("d", 25)] >>,
      << [label |-> Rep("c", 40)], [languageCode |-> "en"] >> }

\* JSON objects a mirror may answer with
JsonObjects ==
    { [description |-> t] : t \in MirrorTexts }
    \cup { [captions |-> c] : c \in CaptionLists }
    \cup { [error |-> "not found"] }

\* responses of a mirror: a transport exception, a status code with a body that
\* is no JSON, a JSON array, or a JSON object
MirrorResponses ==
    [kind : {"exception"}, code : {0}, data : { << >> }]
    \cup [kind : {"text"}, code : {200, 204, 404, 500}, data : { << >> }]
    \cup [kind : {"array"}, code : {200}, data : { << >> }]
    \cup [kind : {"object"}, code : {200, 500}, data : JsonObjects]

\* the length check written `<= 50`: a text of exactly 50 characters is rejected
MirrorVerdict_OffByOne(k, r) ==
    IF r.kind = "exception" THEN "except"
    ELSE IF r.code # 200 THEN "continue"
    ELSE IF r.kind = "text" THEN "continue"
    ELSE IF r.kind = "array" THEN "except"
    ELSE IF ExtractText(k, r.data) = "" \/ Len(ExtractText(k, r.data)) <= MinLen THEN "continue"
    ELSE "return"

\* the mirror loop's verdict on a response of mirror k: "return", "continue"
\* (status, JSON or length check) or "except" (the handler that sets last_error)
MirrorVerdict(k, r) ==
    IF r.kind = "exception" THEN "except"
    ELSE IF r.code # 200 THEN "continue"
    ELSE IF r.kind = "text" THEN "continue"
    ELSE IF r.kind = "array" THEN "except"
    ELSE IF ExtractText(k, r.data) = "" \/ Len(ExtractText(k, r.data)) < MinLen THEN "continue"
    ELSE "return"

(***************************************************************************)
(* Scraping: the video page.                                               *)
(***************************************************************************)
\* the caption file a script tag's baseUrl leads to: the GET raises, answers
\* with another status, or gives the strings of the <text> elements
CaptionFiles ==
    [kind : {"exception"}, code : {0}, texts : { << >> }]
    \cup [kind : {"file"}, code : {404}, texts : { << >> }]
    \cup [kind : {"file"}, code : {200}, texts : { << >>, << "" >>, << "short", "cap" >>, << LongText("x") >> }]

RECURSIVE AccumulateNonEmpty(_, _)
\* for text_tag in ...: if text_tag.string: transcript_text += text_tag.string + " "
AccumulateNonEmpty(text, texts) ==
    IF texts = << >> THEN text
    ELSE AccumulateNonEmpty(IF Head(texts) # "" THEN text \o Head(texts) \o " " ELSE text,
                            Tail(texts))

RECURSIVE ScanScripts(_, _)
\* the loop over the script tags that carry a caption track URL; it stops at the
\* first tag after which transcript_text is not empty
ScanScripts(text, files) ==
    IF files = << >> THEN text
    ELSE LET f == Head(files)
             t == IF f.kind = "file" /\ f.code = 200
                  THEN AccumulateNonEmpty(text, f.texts) ELSE text
         IN  IF f.kind = "file" /\ f.code = 200 /\ t # "" THEN t
             ELSE ScanScripts(t, Tail(files))

TooShort(text) == text = "" \/ Len(text) < MinLen

\* the secondary scan entered only when the caption files gave no text at all
SecondaryScanRuns_OnlyWhenEmpty(page) == Strip(ScanScripts("", page.files)) = ""

\* whether the secondary segment-text scan runs
SecondaryScanRuns(page) == TooShort(Strip(ScanScripts("", page.files)))

\* transcript_text at the final check of get_transcript_by_scraping
ScrapedText(page) ==
    LET first == Strip(ScanScripts("", page.files))
    IN  IF SecondaryScanRuns(page) THEN Strip(Accumulate(first, page.segments)) ELSE first

SegmentLists == { << >>, << "seg" >>, << LongText("s") >>, << "one", LongText("s") >> }

\* the parsed page: the caption files behind its script tags, in order, and
\* the texts of its div.segment-text elements
Pages == [files : SeqsUpTo(CaptionFiles, MaxFiles), segments : SegmentLists]

\* responses of the page fetch
PageResponses == [kind : {"exception"}, code : {0}] \cup [kind : {"page"}, code : {200, 404}]

VARIABLES
    url,               \* the url argument of the request
    pytube_available,  \* PYTUBE_AVAILABLE
    pc,                \* the position of get_youtube_transcript
    extracted,         \* the result of extract_video_id(url)
    calls,             \* the sources consulted so far, in order, with their success
    resp,              \* the response the last consulted source gave
    outcomes,          \* what the request delivered to its caller
    alt_from,          \* the handler that called get_transcript_with_alternative_api
    api,               \* the position of the mirror loop in apis
    last_error,        \* last_error of get_transcript_with_alternative_api
    attempt,           \* attempt of the running retry loop
    retry_delay,       \* retry_delay of the running retry loop
    sleeps,            \* the delays slept so far
    structural,        \* the structural errors the captions service raised so far
    scanned,           \* whether the secondary segment-text scan of the page ran
    cache,             \* the module-level table CACHED_TRANSCRIPTS, shared by all requests
    parked,            \* the local state of a concurrent request that is not running now
    store,             \* the rows of the transcripts table, in the order of insertion
    now,               \* what datetime.now() gives
    reply,             \* what the last call of an endpoint answered
    sessions           \* the database sessions running upvote_transcript step by step

request == << url, pytube_available, extracted >>
retry == << attempt, retry_delay, sleeps >>
vars == << url, pytube_available, pc, extracted, calls, resp, outcomes,
           alt_from, api, last_error, attempt, retry_delay, sleeps, structural,
           scanned, cache, parked, store, now, reply, sessions >>

\* what the process holds besides the local state of the running request
others == << cache, parked, store, now, reply, sessions >>

\* the database and the endpoints' answers
db == << store, now, reply, sessions >>

NoReply == [endpoint |-> "none"]
IdleSession == [pc |-> "idle"]

\* an empty table, no endpoint called, no session open
InitDb ==
    /\ store = << >>
    /\ now = 0
    /\ reply = NoReply
    /\ sessions = [ s \in 1..MaxSessions |-> IdleSession ]

\* no concurrent request
Idle == [pc |-> "idle"]

\* video_id in CACHED_TRANSCRIPTS
InCache(id) == id \in DOMAIN cache

video_id == extracted.id

Call(src, ok) == [src |-> src, ok |-> ok]

\* the request returns {transcript, video_id}
Return(text) ==
    /\ outcomes' = Append(outcomes, Returned(text, video_id))
    /\ pc' = "done"

\* the request raising a bare Exception where the code raises `exc`
Raise_BareException(exc, msg) ==
    /\ outcomes' = Append(outcomes, Raised("Exception", msg))
    /\ pc' = "done"

\* the request raises an exception to its caller
Raise(exc, msg) ==
    /\ outcomes' = Append(outcomes, Raised(exc, msg))
    /\ pc' = "done"

\* the except clause of the outer try that handles an exception of type exc
OuterClause(exc) ==
    CASE exc = "TranscriptsDisabled" -> "TranscriptsDisabled"
      [] exc = "NoTranscriptFound" -> "NoTranscriptFound"
      [] exc = "ValueError" -> "ValueError"
      [] OTHER -> "Exception"

\* the message of the ValueError the caller of the alternative path raises
AlternativeFailureMessage(from) ==
    CASE from = "TranscriptsDisabled" -> MsgDisabled
      [] from = "NoTranscriptFound" -> MsgNotFound
      [] OTHER -> MsgNoTranscript

\* an exception leaves the outer try block: the two structural clauses call
\* the alternative path, a ValueError is re-raised, anything else is wrapped
Propagate(exc, msg) ==
    CASE OuterClause(exc) \in { "TranscriptsDisabled", "NoTranscriptFound" } ->
            /\ pc' = "alternative"
            /\ alt_from' = OuterClause(exc)
            /\ UNCHANGED outcomes
      [] OuterClause(exc) = "ValueError" ->
            /\ Raise("ValueError", msg)
            /\ UNCHANGED alt_from
      [] OTHER ->
            /\ Raise("ValueError", "Error fetching transcript: " \o msg)
            /\ UNCHANGED alt_from

\* a request for a URL of U is about to start
InitRequest(U) ==
    /\ url \in U
    /\ pytube_available \in BOOLEAN
    /\ pc = "start"
    /\ extracted = NoId
    /\ calls = << >>
    /\ resp = NoResp
    /\ outcomes = << >>
    /\ alt_from = "none"
    /\ api = 0
    /\ last_error = "None"
    /\ attempt = 0
    /\ retry_delay = 0
    /\ sleeps = << >>
    /\ structural = {}
    /\ scanned = FALSE
    /\ cache = CACHED_TRANSCRIPTS
    /\ InitDb

\* one request, running alone
InitWith(U) == InitRequest(U) /\ parked = Idle

Init == InitWith(RequestURLs)

\* Extract with the ValueError swallowed: the request goes on with video_id = None
Extract_SwallowsError ==
    /\ pc = "start"
    /\ extracted' = extract_video_id(url)
    /\ pc' = "cache"
    /\ UNCHANGED << url, pytube_available, others, structural, scanned, calls, resp, outcomes, alt_from, api, last_error, retry >>

\* video_id = extract_video_id(url); a ValueError passes through the outer handlers
Extract ==
    /\ pc = "start"
    /\ extracted' = extract_video_id(url)
    /\ IF extracted'.ok
       THEN pc' = "cache" /\ UNCHANGED << outcomes, alt_from >>
       ELSE Propagate("ValueError", MsgInvalidUrl)
    /\ UNCHANGED << url, pytube_available, others, structural, scanned, calls, resp, api, last_error, retry >>

\* CacheCheck without its return: a hit is logged and the cascade runs anyway
CacheCheck_FallsThrough ==
    /\ pc = "cache"
    /\ calls' = Append(calls, Call("cache", InCache(video_id)))
    /\ pc' = "get_transcript"
    /\ UNCHANGED << request, others, structural, scanned, resp, outcomes, alt_from, api, last_error, retry >>

\* a cache lookup that removes the entry it hits from the shared table
CacheCheck_Evicts ==
    /\ pc = "cache"
    /\ calls' = Append(calls, Call("cache", InCache(video_id)))
    /\ IF InCache(video_id)
       THEN /\ Return(cache[video_id])
            /\ cache' = [ id \in DOMAIN cache \ { video_id } |-> cache[id] ]
       ELSE pc' = "get_transcript" /\ UNCHANGED << outcomes, cache >>
    /\ UNCHANGED << request, parked, db, structural, scanned, resp, alt_from, api, last_error, retry >>

\* if video_id in CACHED_TRANSCRIPTS: return the cached text
CacheCheck ==
    /\ pc = "cache"
    /\ calls' = Append(calls, Call("cache", InCache(video_id)))
    /\ IF InCache(video_id)
       THEN Return(cache[video_id])
       ELSE pc' = "get_transcript" /\ UNCHANGED outcomes
    /\ UNCHANGED << request, others, structural, scanned, resp, alt_from, api, last_error, retry >>

\* the handler of the first try block calling the alternative path at once
AfterPrimaryFailure_GivesUp(src) == "alternative"

\* the handler of the first try block going to the enumeration, not to 'en'
AfterPrimaryFailure_SkipsEn(src) ==
    CASE src = "get_transcript" -> "list_transcripts"
      [] src = "get_transcript_en" -> "list_transcripts"
      [] src = "list_transcripts" -> "alternative"

\* the handler of the third try block starting the primary tier over
AfterPrimaryFailure_StartsOver(src) ==
    CASE src = "get_transcript" -> "get_transcript_en"
      [] src = "get_transcript_en" -> "list_transcripts"
      [] src = "list_transcripts" -> "get_transcript"

\* where control goes when primary sub-attempt `src` raises
AfterPrimaryFailure(src) ==
    CASE src = "get_transcript" -> "get_transcript_en"
      [] src = "get_transcript_en" -> "list_transcripts"
      [] src = "list_transcripts" -> "alternative"

\* a primary sub-attempt whose handler gives up on a structural error: it
\* raises the final ValueError without calling the alternative path
PrimaryAttempt_StructuralEnds(src, responses) ==
    /\ pc = src
    /\ \E r \in responses :
         /\ resp' = r
         /\ structural' = IF r.exc \in StructuralErrors
                          THEN structural \cup { r.exc } ELSE structural
         /\ IF r.kind = "segments"
            THEN /\ calls' = Append(calls, Call(src, TRUE))
                 /\ Return(Combine(r.segs))
                 /\ UNCHANGED alt_from
            ELSE /\ calls' = Append(calls, Call(src, FALSE))
                 /\ IF r.exc \in StructuralErrors
                    THEN /\ Raise("ValueError", AlternativeFailureMessage(r.exc))
                         /\ UNCHANGED alt_from
                    ELSE /\ pc' = AfterPrimaryFailure(src)
                         /\ alt_from' = IF pc' = "alternative" THEN "inner" ELSE alt_from
                         /\ UNCHANGED outcomes
    /\ UNCHANGED << request, others, scanned, api, last_error, retry >>

\* one primary sub-attempt: the call, the concatenation and the return, or the
\* handler of its try block
PrimaryAttempt(src, responses) ==
    /\ pc = src
    /\ \E r \in responses :
         /\ resp' = r
         /\ structural' = IF r.exc \in StructuralErrors
                          THEN structural \cup { r.exc } ELSE structural
         /\ IF r.kind = "segments"
            THEN /\ calls' = Append(calls, Call(src, TRUE))
                 /\ Return(Combine(r.segs))
                 /\ UNCHANGED alt_from
            ELSE /\ calls' = Append(calls, Call(src, FALSE))
                 /\ IF CaughtByExceptException(r.exc)
                    THEN /\ pc' = AfterPrimaryFailure(src)
                         /\ alt_from' = IF pc' = "alternative" THEN "inner" ELSE alt_from
                         /\ UNCHANGED outcomes
                    ELSE Propagate(r.exc, r.exc)
    /\ UNCHANGED << request, others, scanned, api, last_error, retry >>

\* YouTubeTranscriptApi.get_transcript(video_id)
GetTranscript == PrimaryAttempt("get_transcript", PrimaryResponses)

\* YouTubeTranscriptApi.get_transcript(video_id, languages=['en'])
GetTranscriptEn == PrimaryAttempt("get_transcript_en", PrimaryResponses)

\* YouTubeTranscriptApi.list_transcripts(video_id), its first track fetched
ListTranscripts == PrimaryAttempt("list_transcripts", ListResponses)

(***************************************************************************)
(* get_transcript_with_alternative_api                                     *)
(***************************************************************************)
\* the caller's handler returning an empty transcript instead of raising
AlternativeFailed_ReturnsEmpty == Return("") /\ UNCHANGED alt_from

\* the caller's handler re-raising the structural error of the primary source:
\* the outer clause of that error then calls the alternative path again
AlternativeFailed_ReraisesCause ==
    IF alt_from = "inner" /\ structural # {}
    THEN Propagate(CHOOSE e \in structural : TRUE, MsgNoTranscript)
    ELSE /\ Raise("ValueError", AlternativeFailureMessage(alt_from))
         /\ UNCHANGED alt_from

\* the alternative path raised: its caller's handler raises the final
\* ValueError, which from inside the outer try passes through its clauses
AlternativeFailed ==
    IF alt_from = "inner"
    THEN Propagate("ValueError", AlternativeFailureMessage(alt_from))
    ELSE /\ Raise("ValueError", AlternativeFailureMessage(alt_from))
         /\ UNCHANGED alt_from

\* entry: last_error = None, then pytube when it is available, else the mirrors
AlternativeEntry ==
    /\ pc = "alternative"
    /\ last_error' = "None"
    /\ IF pytube_available
       THEN /\ pc' = "pytube_connect"
            /\ attempt' = 0
            /\ retry_delay' = 2
            /\ api' = 0
       ELSE /\ pc' = "mirror"
            /\ api' = 1
            /\ UNCHANGED << attempt, retry_delay >>
    /\ UNCHANGED << request, others, structural, scanned, calls, resp, outcomes, alt_from, sleeps >>

\* if attempt == max_retries - 1: raise
LastAttempt(max_retries) == attempt = max_retries - 1

\* the retry step without `retry_delay *= 2`: every sleep has the base delay
SleepAndRetry_NoDoubling ==
    /\ sleeps' = Append(sleeps, retry_delay)
    /\ retry_delay' = retry_delay
    /\ attempt' = attempt + 1

\* time.sleep(retry_delay); retry_delay *= 2; the loop goes on
SleepAndRetry ==
    /\ sleeps' = Append(sleeps, retry_delay)
    /\ retry_delay' = retry_delay * 2
    /\ attempt' = attempt + 1

\* yt = YouTube(youtube_url) inside the retry loop
PytubeConnect ==
    /\ pc = "pytube_connect"
    /\ \E ok \in BOOLEAN :
         /\ resp' = [kind |-> IF ok THEN "youtube" ELSE "exception"]
         /\ calls' = Append(calls, Call("pytube_connect", ok))
         /\ IF ok
            THEN pc' = "pytube_captions" /\ UNCHANGED << api, retry >>
            ELSE IF LastAttempt(PytubeMaxRetries)
                 THEN /\ pc' = "mirror"
                      /\ api' = 1
                      /\ UNCHANGED retry
                 ELSE /\ SleepAndRetry
                      /\ UNCHANGED << pc, api >>
    /\ UNCHANGED << request, others, structural, scanned, outcomes, alt_from, last_error >>

\* yt.captions, the choice of a track, the text of its XML and the length check
PytubeCaptions ==
    /\ pc = "pytube_captions"
    /\ \E r \in CaptionResponses :
         /\ resp' = r
         /\ IF TooShort(PytubeResult(r))
            THEN /\ calls' = Append(calls, Call("pytube_captions", FALSE))
                 /\ pc' = "mirror"
                 /\ api' = 1
                 /\ UNCHANGED outcomes
            ELSE /\ calls' = Append(calls, Call("pytube_captions", TRUE))
                 /\ Return(PytubeResult(r))
                 /\ UNCHANGED api
    /\ UNCHANGED << request, others, structural, scanned, alt_from, last_error, retry >>

MirrorName(k) == "mirror" \o ToString(k)

\* bs4 is also imported unguarded at the top of the module, so the module
\* loads only where the guarded import succeeds too
BEAUTIFULSOUP_AVAILABLE == TRUE

\* the loop leaving out the last entry of apis
MoreMirrors_SkipsLast(k) == k < Len(Mirrors) - 1

\* whether the apis list has an entry after entry k
MoreMirrors(k) == k < Len(Mirrors)

\* the mirror loop without its `except Exception`: an exception of the request
\* or of the extractor leaves get_transcript_with_alternative_api
QueryMirror_AbortsOnException ==
    /\ pc = "mirror"
    /\ \E r \in MirrorResponses :
         /\ resp' = r
         /\ IF MirrorVerdict(api, r) = "return"
            THEN /\ calls' = Append(calls, Call(MirrorName(api), TRUE))
                 /\ Return(ExtractText(api, r.data))
                 /\ UNCHANGED << api, last_error, attempt, retry_delay, alt_from >>
            ELSE /\ calls' = Append(calls, Call(MirrorName(api), FALSE))
                 /\ UNCHANGED last_error
                 /\ IF MirrorVerdict(api, r) = "except"
                    THEN /\ AlternativeFailed
                         /\ UNCHANGED << api, attempt, retry_delay >>
                    ELSE IF MoreMirrors(api)
                    THEN /\ api' = api + 1
                         /\ UNCHANGED << pc, attempt, retry_delay, outcomes, alt_from >>
                    ELSE /\ pc' = "scrape_fetch"
                         /\ attempt' = 0
                         /\ retry_delay' = 1
                         /\ UNCHANGED << api, outcomes, alt_from >>
    /\ UNCHANGED << request, others, structural, scanned, sleeps >>

\* one iteration of `for api in apis`
QueryMirror ==
    /\ pc = "mirror"
    /\ \E r \in MirrorResponses :
         /\ resp' = r
         /\ IF MirrorVerdict(api, r) = "return"
            THEN /\ calls' = Append(calls, Call(MirrorName(api), TRUE))
                 /\ Return(ExtractText(api, r.data))
                 /\ UNCHANGED << api, last_error, attempt, retry_delay, alt_from >>
            ELSE /\ calls' = Append(calls, Call(MirrorName(api), FALSE))
                 /\ last_error' = IF MirrorVerdict(api, r) = "except"
                                  THEN MirrorName(api) \o " " \o r.kind ELSE last_error
                 /\ IF MoreMirrors(api)
                    THEN /\ api' = api + 1
                         /\ UNCHANGED << pc, attempt, retry_delay, outcomes, alt_from >>
                    ELSE IF BEAUTIFULSOUP_AVAILABLE
                    THEN /\ pc' = "scrape_fetch"
                         /\ attempt' = 0
                         /\ retry_delay' = 1
                         /\ UNCHANGED << api, outcomes, alt_from >>
                    ELSE /\ AlternativeFailed
                         /\ UNCHANGED << api, attempt, retry_delay >>
    /\ UNCHANGED << request, others, structural, scanned, sleeps >>

\* the retry loop without the `raise` of the last attempt: when every attempt
\* raised the loop ends and the code after it runs
ScrapeFetch_FallsThrough ==
    /\ pc = "scrape_fetch"
    /\ \E r \in PageResponses :
         /\ resp' = r
         /\ calls' = Append(calls, Call("scrape_page", r.kind = "page" /\ r.code = 200))
         /\ IF r.kind = "exception" /\ ~LastAttempt(ScrapeMaxRetries)
            THEN /\ SleepAndRetry
                 /\ UNCHANGED << pc, outcomes, alt_from >>
            ELSE /\ UNCHANGED retry
                 /\ IF r.kind = "page" /\ r.code # 200
                    THEN AlternativeFailed
                    ELSE pc' = "scrape_parse" /\ UNCHANGED << outcomes, alt_from >>
    /\ UNCHANGED << request, others, structural, scanned, api, last_error >>

\* response = requests.get(youtube_url, ...) inside the retry loop, and the
\* status check after the loop
ScrapeFetch ==
    /\ pc = "scrape_fetch"
    /\ \E r \in PageResponses :
         /\ resp' = r
         /\ calls' = Append(calls, Call("scrape_page", r.kind = "page" /\ r.code = 200))
         /\ IF r.kind = "exception"
            THEN IF LastAttempt(ScrapeMaxRetries)
                 THEN AlternativeFailed /\ UNCHANGED retry
                 ELSE /\ SleepAndRetry
                      /\ UNCHANGED << pc, outcomes, alt_from >>
            ELSE /\ UNCHANGED retry
                 /\ IF r.code # 200
                    THEN AlternativeFailed
                    ELSE pc' = "scrape_parse" /\ UNCHANGED << outcomes, alt_from >>
    /\ UNCHANGED << request, others, structural, scanned, api, last_error >>

\* the scan of the page: caption files of the script tags, then the secondary
\* segment scan, then the final length check
ScrapeParse ==
    /\ pc = "scrape_parse"
    /\ \E page \in Pages :
         /\ resp' = page
         /\ scanned' = SecondaryScanRuns(page)
         /\ calls' = Append(calls, Call("scrape_parse", ~TooShort(ScrapedText(page))))
         /\ IF TooShort(ScrapedText(page))
            THEN AlternativeFailed
            ELSE Return(ScrapedText(page)) /\ UNCHANGED alt_from
    /\ UNCHANGED << request, others, structural, api, last_error, retry >>

Next ==
    \/ Extract
    \/ CacheCheck
    \/ GetTranscript
    \/ GetTranscriptEn
    \/ ListTranscripts
    \/ AlternativeEntry
    \/ PytubeConnect
    \/ PytubeCaptions
    \/ QueryMirror
    \/ ScrapeFetch
    \/ ScrapeParse

Spec == Init /\ [][Next]_vars

(***************************************************************************)
(* Concurrent requests.  Each request runs get_youtube_transcript on local *)
(* variables of its own; the process switches between two of them at any   *)
(* step.  The local state of the one that is not running is kept in parked.*)
(***************************************************************************)
\* the local state of the running request
Context ==
    [url |-> url, pc |-> pc, extracted |-> extracted, calls |-> calls, resp |-> resp,
     outcomes |-> outcomes, alt_from |-> alt_from, api |-> api, last_error |-> last_error,
     attempt |-> attempt, retry_delay |-> retry_delay, sleeps |-> sleeps,
     structural |-> structural, scanned |-> scanned]

\* a request that has not started yet
Fresh(u) ==
    [url |-> u, pc |-> "start", extracted |-> NoId, calls |-> << >>, resp |-> NoResp,
     outcomes |-> << >>, alt_from |-> "none", api |-> 0, last_error |-> "None",
     attempt |-> 0, retry_delay |-> 0, sleeps |-> << >>,
     structural |-> {}, scanned |-> FALSE]

\* the scheduler suspends the running request and resumes the other one
Switch ==
    /\ parked # Idle
    /\ parked' = Context
    /\ url' = parked.url
    /\ pc' = parked.pc
    /\ extracted' = parked.extracted
    /\ calls' = parked.calls
    /\ resp' = parked.resp
    /\ outcomes' = parked.outcomes
    /\ alt_from' = parked.alt_from
    /\ api' = parked.api
    /\ last_error' = parked.last_error
    /\ attempt' = parked.attempt
    /\ retry_delay' = parked.retry_delay
    /\ sleeps' = parked.sleeps
    /\ structural' = parked.structural
    /\ scanned' = parked.scanned
    /\ UNCHANGED << pytube_available, cache, db >>

\* the answers the sources give in the concurrent runs: one failure and one
\* usable answer of each source
ConcurrentResponses ==
    { NoResp,
      [kind |-> "raise", exc |-> "TranscriptsDisabled", segs |-> << >>],
      [kind |-> "segments", exc |-> "", segs |-> << "Hello", "world" >>],
      [kind |-> "youtube"],
      [kind |-> "exception"],
      [kind |-> "exception", tracks |-> << >>],
      [kind |-> "tracks", tracks |-> << [code |-> "en-US", parts |-> << LongText("y"), "&lt;end&gt;" >>] >>],
      [kind |-> "exception", code |-> 0, data |-> << >>],
      [kind |-> "object", code |-> 200, data |-> [description |-> Rep("m", 200)]],
      [kind |-> "exception", code |-> 0],
      [kind |-> "page", code |-> 200],
      [kind |-> "page", code |-> 404],
      [files |-> << >>, segments |-> << >>],
      [files |-> << >>, segments |-> << LongText("s") >>] }

\* a step of the running request
Step == resp' \in ConcurrentResponses /\ Next

NextConcurrent ==
    \/ Step
    \/ Switch

\* the URLs of the concurrent requests: a cached, an uncached and an invalid one
ConcurrentURLs ==
    { "https://youtu.be/iCvmsMzlF7o?si=abc",
      "https://www.youtube.com/watch?v=dQw4w9WgXcQ",
      "https://youtu.be/dQw4w9WgXc" }

\* two requests are about to start
InitConcurrent ==
    /\ InitRequest(ConcurrentURLs)
    /\ parked \in { Fresh(u) : u \in ConcurrentURLs }

SpecConcurrent == InitConcurrent /\ [][NextConcurrent]_vars

\* requests whose identifier is cached, not cached, and not extractable
FairURLs ==
    { "https://youtu.be/iCvmsMzlF7o?si=abc",
      "https://www.youtube.com/watch?v=dQw4w9WgXcQ",
      "https://youtu.be/dQw4w9WgXc" }

InitFair == InitWith(FairURLs)

\* every call of a source eventually returns or raises, so a step of the
\* request that can be taken is eventually taken
FairSpec == InitFair /\ [][Next]_vars /\ WF_vars(Next)

\* one request for one of these URLs, every answer of the sources considered
SpecCascade == InitFair /\ [][Next]_vars

\* extract_video_id applied to every URL of the bounded set
InitExtract == InitWith(URLs)
SpecExtract == InitExtract /\ [][Extract]_vars

(***************************************************************************)
(* The store of user-contributed transcripts: app/services/                *)
(* transcript_service.py, the table of app/models/database.py and the      *)
(* endpoints of app/main.py.                                               *)
(***************************************************************************)
\* the variables of the running get_youtube_transcript call
cascade ==
    << request, pc, calls, resp, outcomes, alt_from, api, last_error, retry,
       structural, scanned, cache, parked >>

\* no call of get_youtube_transcript is modelled step by step
NoRequest ==
    /\ url = ""
    /\ pytube_available = FALSE
    /\ pc = "idle"
    /\ extracted = NoId
    /\ calls = << >>
    /\ resp = NoResp
    /\ outcomes = << >>
    /\ alt_from = "none"
    /\ api = 0
    /\ last_error = "None"
    /\ attempt = 0
    /\ retry_delay = 0
    /\ sleeps = << >>
    /\ structural = {}
    /\ scanned = FALSE
    /\ cache = CACHED_TRANSCRIPTS
    /\ parked = Idle

\* the video ids and texts of the contributions
StoreVideos == { "dQw4w9WgXcQ", "8S0_DjFBj-o" }
ContributedTexts == { "contributed text" }

\* TranscriptCreate
TranscriptCreates == [video_id : StoreVideos, transcript_text : ContributedTexts]

\* str(uuid.uuid4()): an id no row has yet
NewId == "t" \o ToString(Len(store) + 1)

\* a contribution that is stored as approved
NewRow_Approved(t, at) ==
    [id |-> NewId, video_id |-> t.video_id, transcript_text |-> t.transcript_text,
     upvotes |-> 0, is_approved |-> TRUE, created_at |-> at, updated_at |-> at]

\* TranscriptModel(...) as create_transcript builds it at time `at`
NewRow(t, at) ==
    [id |-> NewId, video_id |-> t.video_id, transcript_text |-> t.transcript_text,
     upvotes |-> 0, is_approved |-> FALSE, created_at |-> at, updated_at |-> at]

\* the ids of the rows, and an id no row has
RowIds == { store[i].id : i \in DOMAIN store }
MissingId == "missing"

\* db.query(TranscriptModel).filter(TranscriptModel.id == transcript_id).first()
RowOf(id) == CHOOSE i \in DOMAIN store : store[i].id = id

\* the table after the UPDATE of row i: upvotes set to n, updated_at to `at`
\* an UPDATE without its WHERE clause: every row is given the new values
Updated_AllRows(i, n, at) ==
    [ k \in DOMAIN store |-> [store[k] EXCEPT !.upvotes = n, !.updated_at = at] ]

\* by the column's onupdate=datetime.now
Updated(i, n, at) == [store EXCEPT ![i].upvotes = n, ![i].updated_at = at]

\* filter(video_id == v, is_approved == True)
Approved(v) == { i \in DOMAIN store : store[i].video_id = v /\ store[i].is_approved }

None == [id |-> "None"]

\* the query without its order_by: any approved row of the video
get_transcript_by_video_id_Unranked(v) ==
    IF Approved(v) = {} THEN { None } ELSE { store[i] : i \in Approved(v) }

\* what get_transcript_by_video_id may return: None, or a row that
\* order_by(upvotes.desc()).first() may give (ties are the database's choice)
get_transcript_by_video_id(v) ==
    IF Approved(v) = {} THEN { None }
    ELSE { store[i] : i \in { k \in Approved(v) :
                                \A j \in Approved(v) : store[j].upvotes <= store[k].upvotes } }

\* what get_all_transcripts_for_video may return: the approved rows of the
\* video in an order of descending upvotes
get_all_transcripts_for_video(v) ==
    LET n == Cardinality(Approved(v))
        orders == { q \in [1..n -> Approved(v)] :
                      /\ \A a \in 1..n : \A b \in 1..n : a # b => q[a] # q[b]
                      /\ \A a \in 1..n : \A b \in 1..n :
                           a < b => store[q[a]].upvotes >= store[q[b]].upvotes }
    IN  { [ k \in 1..n |-> store[q[k]] ] : q \in orders }

\* an endpoint's answer, with what the endpoint did for it: whether it queried
\* the store for a contributed transcript and what get_youtube_transcript did
Reply(endpoint, arg, status, body) ==
    [endpoint |-> endpoint, arg |-> arg, status |-> status, body |-> body,
     queried |-> FALSE, youtube |-> NoResp]

\* POST /api/transcripts/contribute: create_transcript adds a row and commits;
\* when the database raises, the session is rolled back and the answer is 400
ContributeTranscript ==
    /\ now < MaxWrites
    /\ \E t \in TranscriptCreates, committed \in BOOLEAN :
         IF committed
         THEN /\ now' = now + 1
              /\ store' = Append(store, NewRow(t, now'))
              /\ reply' = Reply("contribute", t, 200, NewRow(t, now'))
         ELSE /\ reply' = Reply("contribute", t, 400, None)
              /\ UNCHANGED << store, now >>
    /\ UNCHANGED << cascade, sessions >>

\* POST /api/transcripts/upvote: upvote_transcript reads the row, adds one to
\* its upvotes and commits; False (not found, or the database raised and the
\* session was rolled back) becomes 404
UpvoteTranscript ==
    /\ \E id \in RowIds \cup { MissingId }, committed \in BOOLEAN :
         IF id \in RowIds /\ committed
         THEN /\ now < MaxWrites
              /\ now' = now + 1
              /\ store' = Updated(RowOf(id), store[RowOf(id)].upvotes + 1, now')
              /\ reply' = Reply("upvote", id, 200, TRUE)
         ELSE /\ reply' = Reply("upvote", id, 404, FALSE)
              /\ UNCHANGED << store, now >>
    /\ UNCHANGED << cascade, sessions >>

\* GET /api/transcripts/{video_id}: the list get_all_transcripts_for_video gives,
\* or 400 when the query raises
GetTranscripts ==
    /\ \E v \in StoreVideos, answered \in BOOLEAN :
         IF answered
         THEN \E q \in get_all_transcripts_for_video(v) :
                 reply' = Reply("get_transcripts", v, 200, q)
         ELSE reply' = Reply("get_transcripts", v, 400, << >>)
    /\ UNCHANGED << cascade, store, now, sessions >>

\* s.split(sep)[-1]: what follows the last occurrence of sep, s when there is none
RECURSIVE SplitLast(_, _)
SplitLast(s, sep) ==
    LET i == Find(s, sep, 1)
    IN  IF i = 0 THEN s ELSE SplitLast(From(s, i + Len(sep)), sep)

\* s.split(sep)[0]: what precedes the first occurrence of sep, s when there is none
SplitFirst(s, sep) ==
    LET i == Find(s, sep, 1)
    IN  IF i = 0 THEN s ELSE SubSeq(s, 1, i - 1)

\* the video id the endpoint derives from the URL for the database fallback
SplitId(u) ==
    IF Contains(u, "v=")
    THEN SplitFirst(SplitLast(u, "v="), "&")
    ELSE SplitFirst(SplitLast(u, "/"), "?")

\* URLs posted to the endpoint
EndpointURLs ==
    { "https://youtu.be/iCvmsMzlF7o?si=abc",
      "https://www.youtube.com/watch?v=dQw4w9WgXcQ&t=10",
      "https://youtu.be/8S0_DjFBj-o?t=10",
      "https://youtu.be/dQw4w9WgXcQ?v=2",
      "https://youtu.be/dQw4w9WgXc" }

\* transcripts the sources deliver for a video that is not in the cache
FetchedTexts == { Combine(<< LongText("p") >>), Combine(<< "Hello", "world" >>) }

\* the URLs with what extract_video_id makes of them
Extractions == { [url |-> u, extracted |-> extract_video_id(u)] : u \in EndpointURLs }

\* what get_youtube_transcript can do after the extraction gave e: ValueError
\* for a URL without an id, the cached text for a cached id, otherwise a
\* transcript of one of the sources or ValueError after all of them failed
Outcomes(e) ==
    IF ~e.ok THEN { Raised("ValueError", MsgInvalidUrl) }
    ELSE IF e.id \in CachedIds THEN { Returned(CACHED_TRANSCRIPTS[e.id], e.id) }
    ELSE { Returned(t, e.id) : t \in FetchedTexts }
         \cup { Raised("ValueError", MsgNoTranscript) }

\* the requests of the endpoint: a URL, what get_youtube_transcript does with
\* it, and the video id the fallback derives from it
FetchRequests ==
    UNION { { [url |-> x.url, outcome |-> o, split_id |-> SplitId(x.url)] :
                o \in Outcomes(x.extracted) } : x \in Extractions }

\* get_transcript_by_video_id re-raises what the query raised
QueryFailed == [id |-> "OperationalError"]

\* the summary stage: no summary asked for, the text generate_summary returns,
\* or the error the language-model client raises
SummaryResults == { "None", "summary", "APIError" }

\* the answer of fetch_transcript to request q: r is what
\* get_transcript_by_video_id gave (or QueryFailed when the query raised),
\* summary what the summary stage did
FetchReply(q, r, summary) ==
    LET u == q.url
        o == q.outcome
        fallback == o.kind = "raise"
        result == IF ~fallback
                  THEN [kind |-> "ok", transcript |-> o.transcript, video_id |-> o.video_id]
                  ELSE IF r = QueryFailed
                  THEN [kind |-> "Exception", msg |-> "Server error: " \o r.id]
                  ELSE IF r # None
                  THEN [kind |-> "ok", transcript |-> r.transcript_text, video_id |-> q.split_id]
                  ELSE [kind |-> "ValueError", msg |-> o.msg]
        answer == CASE result.kind = "ValueError" -> Reply("fetch", u, 400, result.msg)
                    [] result.kind = "Exception" -> Reply("fetch", u, 500, result.msg)
                    [] result.kind = "ok" /\ summary = "APIError" ->
                         Reply("fetch", u, 500, "Server error: " \o summary)
                    [] OTHER ->
                         Reply("fetch", u, 200,
                               [success |-> TRUE, transcript |-> result.transcript,
                                summary |-> summary,
                                video_id |-> result.video_id])
    IN  [answer EXCEPT !.queried = fallback, !.youtube = o]

\* POST /api/transcript
FetchTranscript ==
    /\ \E q \in FetchRequests, summary \in SummaryResults :
         \E r \in IF q.outcome.kind = "raise"
                   THEN get_transcript_by_video_id(q.split_id) \cup { QueryFailed }
                   ELSE { None } :
            reply' = FetchReply(q, r, summary)
    /\ UNCHANGED << cascade, store, now, sessions >>

\* one upvote_transcript call in its own session: the row is loaded ...
UpvoteRead(s) ==
    /\ sessions[s].pc = "idle"
    /\ \E id \in RowIds \cup { MissingId } :
         sessions' = [sessions EXCEPT ![s] =
                        IF id \in RowIds
                        THEN [pc |-> "loaded", id |-> id,
                              upvotes |-> store[RowOf(id)].upvotes, result |-> FALSE]
                        ELSE [pc |-> "done", id |-> id, upvotes |-> 0, result |-> FALSE]]
    /\ UNCHANGED << cascade, store, now, reply >>

\* ... and the loaded value plus one is written and committed; when the
\* database raises, the session is rolled back and the call returns False
UpvoteCommit(s) ==
    /\ sessions[s].pc = "loaded"
    /\ \E committed \in BOOLEAN :
         IF committed
         THEN /\ now' = now + 1
              /\ store' = Updated(RowOf(sessions[s].id), sessions[s].upvotes + 1, now')
              /\ sessions' = [sessions EXCEPT ![s].pc = "done", ![s].result = TRUE]
         ELSE /\ sessions' = [sessions EXCEPT ![s].pc = "done"]
              /\ UNCHANGED << store, now >>
    /\ UNCHANGED << cascade, reply >>

\* the store of a new deployment: no request of the cascade runs, no rows
InitStore == NoRequest /\ InitDb

NextStore ==
    \/ ContributeTranscript
    \/ UpvoteTranscript
    \/ GetTranscripts
    \/ FetchTranscript

\* the endpoints served one after the other on an empty store
SpecStore == InitStore /\ [][NextStore]_vars

\* a row as it is found in a database that is already in use
StoredRow(id, v, text, n, approved) ==
    [id |-> id, video_id |-> v, transcript_text |-> text, upvotes |-> n,
     is_approved |-> approved, created_at |-> 0, updated_at |-> 0]

\* contents of the database when the service starts
InitialStores ==
    { << >>,
      << StoredRow("t1", "dQw4w9WgXcQ", "approved A", 1, TRUE) >>,
      << StoredRow("t1", "dQw4w9WgXcQ", "approved A", 1, TRUE),
         StoredRow("t2", "dQw4w9WgXcQ", "approved B", 2, TRUE) >>,
      << StoredRow("t1", "dQw4w9WgXcQ", "pending A", 2, FALSE),
         StoredRow("t2", "dQw4w9WgXcQ", "approved B", 0, TRUE) >>,
      << StoredRow("t1", "dQw4w9WgXc", "approved C", 0, TRUE) >>,
      << StoredRow("t1", "2", "approved E", 0, TRUE) >>,
      << StoredRow("t1", "8S0_DjFBj-o", "pending D", 1, FALSE) >> }

InitEndpoint ==
    /\ NoRequest
    /\ store \in InitialStores
    /\ now = 0
    /\ reply = NoReply
    /\ sessions = [ s \in 1..MaxSessions |-> IdleSession ]

NextEndpoint ==
    \/ UpvoteTranscript
    \/ GetTranscripts
    \/ FetchTranscript

\* transcripts fetched, listed and upvoted on a database in use
SpecEndpoint == InitEndpoint /\ [][NextEndpoint]_vars

NextRace ==
    \/ ContributeTranscript
    \/ \E s \in 1..MaxSessions : UpvoteRead(s)
    \/ \E s \in 1..MaxSessions : UpvoteCommit(s)

\* upvote_transcript calls running concurrently, each in its own session
SpecRace == InitStore /\ [][NextRace]_vars

(***************************************************************************)
(* Properties.                                                             *)
(***************************************************************************)
Last(q) == q[Len(q)]

Srcs == { calls[i].src : i \in DOMAIN calls }

PrimarySrcs == { "get_transcript", "get_transcript_en", "list_transcripts" }
PytubeSrcs == { "pytube_connect", "pytube_captions" }
MirrorSrcs == { MirrorName(k) : k \in 1..Len(Mirrors) }
ScrapeSrcs == { "scrape_page", "scrape_parse" }

\* the sources outside the process: everything but the cache lookup
ExternalSrcs == PrimarySrcs \cup PytubeSrcs \cup MirrorSrcs \cup ScrapeSrcs

\* calls that only open a tier: a success of theirs yields no transcript yet
OpeningSrcs == { "pytube_connect", "scrape_page" }

Cached == extracted.ok /\ video_id \in CachedIds
Uncached == extracted.ok /\ video_id \notin CachedIds

\* every call made so far failed to yield a transcript
NoCallSucceeded ==
    \A i \in DOMAIN calls : calls[i].ok => calls[i].src \in OpeningSrcs

\* the primary sub-attempts, the mirrors and the scraping tier were all tried
FullCascadeTried ==
    /\ PrimarySrcs \subseteq Srcs
    /\ MirrorSrcs \subseteq Srcs
    /\ "scrape_page" \in Srcs
    /\ pytube_available => "pytube_connect" \in Srcs

\* C1: when the extracted identifier is a key of the static cache, the request
\* returns the cached text with that identifier and no external source is
\* ever called.
C1_CacheShortCircuit ==
    Cached =>
        /\ Srcs \cap ExternalSrcs = {}
        /\ pc \in { "cache", "done" }
        /\ pc = "done" =>
             outcomes = << [kind |-> "return", transcript |-> CACHED_TRANSCRIPTS[video_id],
                            video_id |-> video_id, exc |-> "", msg |-> ""] >>

C1_Witness ==
    /\ Cached
    /\ pc = "done"
    /\ calls = << Call("cache", TRUE) >>
    /\ Len(outcomes) = 1
    /\ outcomes[1].kind = "return"

\* C2: a request has at most one outcome, a finished request has exactly one,
\* a return or a raise; and when the identifier is valid and not cached and
\* every tier failed, that outcome is a raised error carrying no transcript.
C2_Exhaustion ==
    /\ Len(outcomes) <= 1
    /\ (pc = "done") <=> (Len(outcomes) = 1)
    /\ \A i \in DOMAIN outcomes : outcomes[i].kind \in { "return", "raise" }
    /\ (pc = "done" /\ Uncached /\ FullCascadeTried /\ NoCallSucceeded) =>
          /\ outcomes[1].kind = "raise"
          /\ outcomes[1].transcript = ""

C2_Witness ==
    /\ pc = "done"
    /\ Uncached
    /\ FullCascadeTried
    /\ NoCallSucceeded
    /\ Last(calls) = Call("scrape_parse", FALSE)
    /\ outcomes = << Raised("ValueError", MsgNoTranscript) >>

\* C3 (as claimed): a transcript returned for an identifier that is not cached
\* is never empty and never shorter than 50 characters.
C3_QualityGate ==
    \A i \in DOMAIN outcomes :
        (Uncached /\ outcomes[i].kind = "return") => Len(outcomes[i].transcript) >= MinLen

Tier(src) ==
    CASE src = "cache" -> "CacheCheck"
      [] src \in PrimarySrcs -> "Primary"
      [] src \in PytubeSrcs -> "Pytube"
      [] src \in MirrorSrcs -> "Mirrors"
      [] src \in ScrapeSrcs -> "Scraping"

\* C4 (as claimed): no source outside the four tiers CacheCheck, Primary,
\* Mirrors, Scraping is consulted.
C4_FourTiersOnly ==
    \A i \in DOMAIN calls : Tier(calls[i].src) \in { "CacheCheck", "Primary", "Mirrors", "Scraping" }

\* the tier that follows tier t in this process
TierAfter(t) ==
    CASE t = "CacheCheck" -> "Primary"
      [] t = "Primary" -> IF pytube_available THEN "Pytube" ELSE "Mirrors"
      [] t = "Pytube" -> "Mirrors"
      [] t = "Mirrors" -> "Scraping"
      [] t = "Scraping" -> "Exhausted"

\* the calls a tier starts with and the calls whose failure ends it
TierStarts == { "cache", "get_transcript", "pytube_connect", "mirror1", "scrape_page" }
TierEnds == { "cache", "list_transcripts", "pytube_connect", "pytube_captions", "mirror3" }

\* C4 (amended): the sources are attempted in the fixed sequence CacheCheck,
\* Primary, pytube (only when the pytube library is available), Mirrors,
\* Scraping; a tier is entered only after the previous tier ended in failure;
\* a success ends the request with no later call; no other source is consulted.
C4_TierOrder ==
    /\ calls # << >> => calls[1].src = "cache"
    /\ \A i \in DOMAIN calls :
         /\ Tier(calls[i].src) \in { "CacheCheck", "Primary", "Pytube", "Mirrors", "Scraping" }
         /\ Tier(calls[i].src) = "Pytube" => pytube_available
         /\ (calls[i].ok /\ calls[i].src \notin OpeningSrcs) =>
               /\ i = Len(calls)
               /\ pc = "done"
               /\ Len(outcomes) = 1 /\ outcomes[1].kind = "return"
    /\ \A i \in 2..Len(calls) :
         LET a == calls[i - 1]
             b == calls[i]
         IN  /\ a.ok => a.src \in OpeningSrcs /\ Tier(b.src) = Tier(a.src)
             /\ \/ Tier(b.src) = Tier(a.src)
                \/ /\ Tier(b.src) = TierAfter(Tier(a.src))
                   /\ ~a.ok
                   /\ a.src \in TierEnds
                   /\ b.src \in TierStarts

C4_Witness ==
    /\ pytube_available
    /\ pc = "done"
    /\ { "get_transcript", "pytube_connect", "mirror1", "mirror3", "scrape_page" } \subseteq Srcs
    /\ Last(calls) = Call("scrape_parse", TRUE)
    /\ Len(outcomes) = 1 /\ outcomes[1].kind = "return"

\* C5: the primary tier runs the default fetch, then the 'en' fetch, then the
\* enumeration; each runs only directly after the one before it raised; the
\* first that does not raise ends the request with its segments concatenated,
\* and nothing is called after it.
C5_PrimaryOrder ==
    /\ \A i \in DOMAIN calls :
         /\ calls[i].src = "get_transcript" => i = 2 /\ calls[1] = Call("cache", FALSE)
         /\ calls[i].src = "get_transcript_en" => i = 3 /\ calls[2] = Call("get_transcript", FALSE)
         /\ calls[i].src = "list_transcripts" => i = 4 /\ calls[3] = Call("get_transcript_en", FALSE)
         /\ (calls[i].src \in PrimarySrcs /\ calls[i].ok) => i = Len(calls)
    /\ (calls # << >> /\ Last(calls).src \in PrimarySrcs) =>
          IF resp.kind = "segments"
          THEN /\ Last(calls).ok
               /\ pc = "done"
               /\ outcomes = << Returned(Combine(resp.segs), video_id) >>
          ELSE /\ ~Last(calls).ok
               /\ outcomes = << >>
               /\ Last(calls).src = "get_transcript" => pc = "get_transcript_en"
               /\ Last(calls).src = "get_transcript_en" => pc = "list_transcripts"
               /\ Last(calls).src = "list_transcripts" =>
                     pc \in { "alternative", "pytube_connect", "mirror" }

C5_Witness ==
    /\ calls = << Call("cache", FALSE), Call("get_transcript", FALSE), Call("get_transcript_en", TRUE) >>
    /\ resp.kind = "segments"
    /\ resp.segs = << "Hello", "world" >>
    /\ outcomes = << Returned("Hello world", video_id) >>
    /\ pc = "done"

\* a mirror's answer with status 200 whose JSON object has this description
Described(text) == [kind |-> "object", code |-> 200, data |-> [description |-> text]]

\* C6: mirror k is queried only directly after mirrors 1..k-1 were queried in
\* list order and failed; the request returns the text of the mirror just
\* queried exactly when its response is a status-200 JSON object whose
\* extracted text has at least 50 characters (50 accepted, 49 rejected), and
\* otherwise goes on to the next mirror, or to scraping after the last one.
C6_MirrorSelection ==
    /\ \A i \in DOMAIN calls : \A k \in 1..Len(Mirrors) :
         calls[i].src = MirrorName(k) =>
            /\ i > k
            /\ \A j \in 1..(k - 1) : calls[i - j] = Call(MirrorName(k - j), FALSE)
            /\ calls[i - k].src \notin MirrorSrcs
            /\ calls[i].ok => i = Len(calls)
    /\ \A k \in 1..Len(Mirrors) :
         (calls # << >> /\ Last(calls).src = MirrorName(k)) =>
            LET usable == resp.kind = "object" /\ resp.code = 200
            IN  IF usable /\ Len(ExtractText(k, resp.data)) >= MinLen
                THEN /\ Last(calls).ok
                     /\ pc = "done"
                     /\ outcomes = << Returned(ExtractText(k, resp.data), video_id) >>
                ELSE /\ ~Last(calls).ok
                     /\ outcomes = << >>
                     /\ k < Len(Mirrors) => pc = "mirror" /\ api = k + 1
                     /\ k = Len(Mirrors) => pc = "scrape_fetch"
    /\ (calls # << >> /\ Last(calls).src \in { "mirror1", "mirror2" }) =>
          /\ resp = Described(Rep("m", 50)) => outcomes = << Returned(Rep("m", 50), video_id) >>
          /\ resp = Described(Rep("m", 49)) => outcomes = << >>
          /\ resp = Described(Rep("m", 40)) => outcomes = << >>

C6_Witness ==
    /\ Len(calls) >= 2
    /\ calls[Len(calls) - 1] = Call("mirror1", FALSE)
    /\ Last(calls) = Call("mirror2", TRUE)
    /\ resp = Described(Rep("m", 200))
    /\ outcomes = << Returned(Rep("m", 200), video_id) >>
    /\ pc = "done"

\* the URL is head, token, tail with the tail empty or starting with `first`
InForm(heads, first, t) ==
    \E h \in heads, s \in Tails :
        /\ s = "" \/ IsAt(s, first, 1)
        /\ url = h \o t \o s

\* C7 (as claimed): for a URL in short-link, watch or embed form carrying a
\* valid 11-character token, extract_video_id returns exactly that token.
C7_CanonicalForms ==
    pc # "start" =>
        \A t \in IdTokens :
            (\/ InForm(ShortHeads, "?", t)
             \/ InForm(WatchHeads, "&", t)
             \/ InForm(EmbedHeads, "?", t)) => extracted = [ok |-> TRUE, id |-> t]

HasMarker ==
    \/ Contains(url, "youtu.be/")
    \/ Contains(url, "youtube.com/watch") /\ Contains(url, "v=")
    \/ Contains(url, "youtube.com/embed/")

\* C8 (as claimed): for a URL that matches none of the recognized shapes, or
\* whose substring after the marker, up to the next delimiter or the end, is
\* not exactly 11 characters long, extract_video_id raises and gives no id.
C8_InvalidUrlFails ==
    pc # "start" =>
        /\ ~HasMarker => ~extracted.ok
        /\ \A t \in Tokens :
             (/\ Len(t) # IdLen
              /\ \/ InForm(ShortHeads, "?", t)
                 \/ InForm(WatchHeads, "&", t)
                 \/ InForm(EmbedHeads, "?", t)) => ~extracted.ok

\* C9: when the extraction fails the request raises at once: the cache is
\* not consulted and no source is called.
C9_InvalidUrlRaisesAtOnce ==
    (pc # "start" /\ ~extracted.ok) =>
        /\ calls = << >>
        /\ pc = "done"
        /\ outcomes = << [kind |-> "raise", transcript |-> "", video_id |-> "",
                          exc |-> "ValueError", msg |-> MsgInvalidUrl] >>

C9_Witness ==
    /\ pc = "done"
    /\ ~extracted.ok
    /\ url = "https://youtu.be/dQw4w9WgXc"
    /\ Len(outcomes) = 1
    /\ outcomes[1].kind = "raise"

\* C10: when the request raises for an extracted identifier that is not
\* cached, all three primary sub-attempts, every mirror and the scraping tier
\* (and pytube, when available) were attempted before, and none succeeded.
C10_RaiseOnlyAfterFullCascade ==
    (Uncached /\ Len(outcomes) >= 1 /\ outcomes[1].kind = "raise") =>
        /\ FullCascadeTried
        /\ NoCallSucceeded
        /\ Last(calls).src \in ScrapeSrcs
        /\ ~Last(calls).ok

C10_Witness ==
    /\ Uncached
    /\ pytube_available
    /\ "pytube_captions" \in Srcs
    /\ Last(calls) = Call("scrape_page", FALSE)
    /\ Len(outcomes) = 1
    /\ outcomes[1].kind = "raise"

\* C11: whatever the URL and whatever the sources answer or raise, an outcome
\* of the request is either a result with the fields 'transcript' and
\* 'video_id', the latter being the identifier extracted from the URL, or a
\* raised ValueError; no other exception type reaches the caller.
C11_NormalizedOutcome ==
    \A i \in DOMAIN outcomes :
        \/ /\ outcomes[i].kind = "return"
           /\ { "transcript", "video_id" } \subseteq DOMAIN outcomes[i]
           /\ extracted.ok
           /\ outcomes[i].video_id = extracted.id
        \/ /\ outcomes[i].kind = "raise"
           /\ outcomes[i].exc = "ValueError"

C11_Witness ==
    /\ structural = StructuralErrors
    /\ Call("pytube_connect", FALSE) \in { calls[i] : i \in DOMAIN calls }
    /\ last_error = "mirror3 exception"
    /\ Last(calls) = Call("scrape_page", FALSE)
    /\ resp.kind = "exception"
    /\ outcomes = << Raised("ValueError", MsgNoTranscript) >>

\* the transcript the claim describes: the texts joined in order by one space,
\* whitespace removed at both ends
SingleSpaceJoin(segs) == Strip(Join(" ", segs))

\* C12: when a primary sub-attempt returns a list of segments, the transcript
\* of the request is the segment texts joined in order with a single space
\* between consecutive texts, stripped of leading and trailing whitespace
\* (["Hello", "world"] gives "Hello world").
C12_SegmentConcatenation ==
    (calls # << >> /\ Last(calls).src \in PrimarySrcs /\ resp.kind = "segments") =>
        /\ Len(outcomes) = 1
        /\ outcomes[1].kind = "return"
        /\ outcomes[1].transcript = SingleSpaceJoin(resp.segs)
        /\ resp.segs = << "Hello", "world" >> => outcomes[1].transcript = "Hello world"
        /\ resp.segs = << " so\n", "Hello" >> => outcomes[1].transcript = "so\n Hello"

C12_Witness ==
    /\ calls # << >>
    /\ Last(calls) = Call("get_transcript", TRUE)
    /\ resp.kind = "segments"
    /\ resp.segs = << "Hello", "world" >>
    /\ outcomes = << Returned("Hello world", video_id) >>

\* C13: a 'transcripts disabled' or 'no transcript found' error of the primary
\* source never ends the request by itself: the step in which it is raised
\* delivers nothing to the caller, and an error is surfaced in such a request
\* only after every mirror and the scraping tier were attempted.
C13_StructuralErrorNotFinal ==
    /\ (/\ calls # << >>
        /\ Last(calls).src \in PrimarySrcs
        /\ resp.kind = "raise"
        /\ resp.exc \in StructuralErrors) => (outcomes = << >> /\ pc # "done")
    /\ (structural # {} /\ outcomes # << >> /\ outcomes[1].kind = "raise") =>
          /\ MirrorSrcs \subseteq Srcs
          /\ "scrape_page" \in Srcs
          /\ Last(calls).src \in ScrapeSrcs

C13_Witness ==
    /\ structural = { "TranscriptsDisabled" }
    /\ ~pytube_available
    /\ Len(calls) = 8
    /\ \A i \in 2..4 : calls[i].src \in PrimarySrcs /\ ~calls[i].ok
    /\ \A i \in 5..7 : calls[i].src \in MirrorSrcs /\ ~calls[i].ok
    /\ calls[8] = Call("scrape_page", FALSE)
    /\ outcomes # << >>
    /\ outcomes[1].kind = "raise"

\* C14 (as claimed): when the only structural error the primary source
\* reported is 'transcripts disabled' (resp. 'no transcript found') and every
\* alternative source failed, the raised error carries the message specific
\* to that cause, not the generic all-attempts message.
C14_StructuralErrorPreserved ==
    (Uncached /\ outcomes # << >> /\ outcomes[1].kind = "raise") =>
        /\ structural = { "TranscriptsDisabled" } => outcomes[1].msg = MsgDisabled
        /\ structural = { "NoTranscriptFound" } => outcomes[1].msg = MsgNotFound

\* a summary of why the last attempt of the request failed
LastCause ==
    CASE Last(calls).src = "scrape_page" /\ resp.kind = "exception" -> "scrape_page exception"
      [] Last(calls).src = "scrape_page" /\ resp.kind # "exception" ->
            "scrape_page status " \o ToString(resp.code)
      [] Last(calls).src = "scrape_parse" -> "scrape_parse short text"
      [] OTHER -> Last(calls).src

\* C15 (as claimed): when every source is exhausted, the error raised to the
\* caller carries the last underlying cause: its message names the failure
\* of the last attempt that failed in the request.
C15_CarriesLastCause ==
    (/\ Uncached
     /\ FullCascadeTried
     /\ NoCallSucceeded
     /\ outcomes # << >>
     /\ outcomes[1].kind = "raise") => Contains(outcomes[1].msg, LastCause)

\* the ways a mirror attempt fails: a transport exception or timeout, a status
\* outside 2xx, a body that is no JSON, an exception in the extractor, or an
\* extracted text that is empty or shorter than MinLen
MirrorFailure(k, r) ==
    \/ r.kind = "exception"
    \/ r.code \notin 200..299
    \/ r.kind = "text"
    \/ r.kind = "array"
    \/ r.kind = "object" /\ TooShort(ExtractText(k, r.data))

\* C16: a mirror attempt that fails in any of these ways never aborts the
\* mirror tier: nothing is delivered to the caller, the call that follows the
\* failure of mirror k is the query of mirror k+1, and the call that follows
\* the failure of the last mirror is the page fetch of the scraping tier.
C16_MirrorFallthrough ==
    /\ \A k \in 1..Len(Mirrors) :
         (calls # << >> /\ Last(calls).src = MirrorName(k) /\ MirrorFailure(k, resp)) =>
            /\ ~Last(calls).ok
            /\ outcomes = << >>
            /\ IF k < Len(Mirrors) THEN pc = "mirror" /\ api = k + 1
               ELSE pc = "scrape_fetch"
    /\ \A i \in DOMAIN calls : \A k \in 1..Len(Mirrors) :
         (calls[i] = Call(MirrorName(k), FALSE) /\ i < Len(calls)) =>
            calls[i + 1].src = IF k < Len(Mirrors) THEN MirrorName(k + 1) ELSE "scrape_page"

C16_Witness ==
    /\ Len(calls) >= 4
    /\ calls[Len(calls) - 3] = Call("mirror1", FALSE)
    /\ calls[Len(calls) - 2] = Call("mirror2", FALSE)
    /\ calls[Len(calls) - 1] = Call("mirror3", FALSE)
    /\ last_error = "mirror3 array"
    /\ Last(calls).src = "scrape_page"

\* the positional substring of each shape whose marker occurs in the URL
ShortToken == IF Contains(url, "youtu.be/") THEN Positional(url, "youtu.be/", "?") ELSE ""
WatchToken ==
    IF Contains(url, "youtube.com/watch") /\ Contains(url, "v=")
    THEN Positional(url, "v=", "&") ELSE ""
EmbedToken ==
    IF Contains(url, "youtube.com/embed/") THEN Positional(url, "youtube.com/embed/", "?") ELSE ""

\* the extraction the claim describes: the first of the three positional
\* substrings that is IdLen characters long, the pattern only when none is
FirstPositionalMatch ==
    IF Len(ShortToken) = IdLen THEN GotId(ShortToken)
    ELSE IF Len(WatchToken) = IdLen THEN GotId(WatchToken)
    ELSE IF Len(EmbedToken) = IdLen THEN GotId(EmbedToken)
    ELSE RegexSearch(url)

\* C17 (as claimed): extract_video_id returns the token of the first of the
\* short-link, watch and embed shapes whose positional substring is exactly
\* 11 characters long, and uses the pattern only when none of the three is;
\* so a watch or embed substring of 11 characters is returned even when a
\* short-link marker occurs with a substring of another length.
C17_FirstPositionalMatch ==
    pc # "start" => extracted = FirstPositionalMatch

\* watch URLs whose v parameter comes after another query parameter
LaterParamHeads ==
    { "https://www.youtube.com/watch?t=1&v=", "https://www.youtube.com/watch?rev=1&v=" }

\* C18 (as claimed): for a watch URL whose v parameter carries a valid
\* 11-character token and is not the first query parameter, whatever the
\* other parameters are, extract_video_id returns the token of v.
C18_LaterParameter ==
    pc # "start" =>
        \A t \in IdTokens :
            InForm(LaterParamHeads, "&", t) => extracted = [ok |-> TRUE, id |-> t]

\* C19 (as claimed): an identifier extract_video_id returns is exactly 11
\* characters long, has only characters of [A-Za-z0-9_-], and occurs verbatim
\* in the URL.
C19_WellFormedId ==
    (pc # "start" /\ extracted.ok) =>
        /\ Len(extracted.id) = IdLen
        /\ \A i \in 1..Len(extracted.id) : Char(extracted.id, i) \in IdChars
        /\ Contains(url, extracted.id)

\* how many times source `src` was called so far
Count(src) == Cardinality({ i \in DOMAIN calls : calls[i].src = src })

\* how many sleeps the retry loop around `src` made so far: one before each
\* attempt after the first, the next attempt being due while pc is `at`
Retries(src, at) ==
    IF Count(src) = 0 THEN 0
    ELSE Count(src) - 1 + (IF pc = at THEN 1 ELSE 0)

\* the delays base, 2*base, 4*base, ... before attempts 2..n+1
Backoff(base, n) == [ k \in 1..n |-> base * 2^(k - 1) ]

\* the attempts of one retry loop are consecutive calls, each one after the
\* first directly after a failed one, and there are at most `max` of them
BoundedLoop(src, max) ==
    /\ Count(src) <= max
    /\ \A i \in DOMAIN calls :
         (calls[i].src = src /\ \E j \in 1..(i - 1) : calls[j].src = src) =>
            calls[i - 1] = Call(src, FALSE)

\* C20: the pytube connection is attempted at most 3 times with delays 2, 4
\* and the scraping page fetch at most 2 times with delay 1; an attempt
\* follows only an attempt that raised, the delay before attempt k+1 is
\* base*2^(k-1), no sleep follows the final attempt, the tier fails when the
\* final attempt raises, and a response with a non-200 status is not retried.
C20_BoundedRetry ==
    /\ BoundedLoop("pytube_connect", 3)
    /\ BoundedLoop("scrape_page", 2)
    /\ sleeps = Backoff(2, Retries("pytube_connect", "pytube_connect"))
                  \o Backoff(1, Retries("scrape_page", "scrape_fetch"))
    /\ (calls # << >> /\ Last(calls) = Call("pytube_connect", FALSE)) =>
          /\ resp.kind = "exception"
          /\ IF Count("pytube_connect") = 3
             THEN pc = "mirror" /\ outcomes = << >>
             ELSE pc = "pytube_connect"
    /\ (calls # << >> /\ Last(calls) = Call("scrape_page", FALSE)) =>
          IF resp.kind = "exception" /\ Count("scrape_page") < 2
          THEN pc = "scrape_fetch" /\ outcomes = << >>
          ELSE /\ pc = "done"
               /\ Len(outcomes) = 1
               /\ outcomes[1].kind = "raise"

C20_Witness ==
    /\ Count("pytube_connect") = 3
    /\ Count("scrape_page") = 2
    /\ sleeps = << 2, 4, 1 >>
    /\ Last(calls) = Call("scrape_page", FALSE)
    /\ resp.kind = "page"
    /\ resp.code = 404
    /\ pc = "done"

\* the text the caption-track extraction of a page produced
CaptionText(page) == Strip(ScanScripts("", page.files))

\* the text of the div.segment-text elements of a page alone
SegmentText(page) == Strip(Accumulate("", page.segments))

\* no script tag gave a usable caption file
NoCaptionFile(page) ==
    \A i \in DOMAIN page.files : page.files[i].kind = "exception" \/ page.files[i].code # 200

ParsedPage == calls # << >> /\ Last(calls).src = "scrape_parse"

\* C21: once the page was fetched with status 200, the secondary segment
\* scan runs exactly when the caption-track extraction gave no text or fewer
\* than 50 characters (so also when there is no caption metadata or the
\* caption file fetch failed); the tier fails only after that scan ran, and
\* it succeeds exactly when the final stripped text has at least 50 characters.
C21_ScrapingGate ==
    IF ParsedPage
    THEN /\ scanned <=> (CaptionText(resp) = "" \/ Len(CaptionText(resp)) < 50)
         /\ NoCaptionFile(resp) => scanned
         /\ ~Last(calls).ok => scanned
         /\ Last(calls).ok <=> Len(ScrapedText(resp)) >= 50
         /\ Last(calls).ok <=> (outcomes = << Returned(ScrapedText(resp), video_id) >>)
         /\ ~Last(calls).ok <=> (Len(outcomes) = 1 /\ outcomes[1].kind = "raise")
    ELSE ~scanned

C21_Witness ==
    /\ ParsedPage
    /\ resp.files = << [kind |-> "exception", code |-> 0, texts |-> << >>] >>
    /\ resp.segments = << LongText("s") >>
    /\ scanned
    /\ outcomes = << Returned(LongText("s"), video_id) >>

\* C30 (as claimed): the text the scraping tier returns comes from exactly
\* one extraction method, the caption-track XML or the secondary segment
\* scan; a caption text below the threshold is never joined with the text of
\* the secondary scan.
C30_OneExtractionMethod ==
    (ParsedPage /\ Last(calls).ok) =>
        \A i \in DOMAIN outcomes :
            outcomes[i].transcript \in { CaptionText(resp), SegmentText(resp) }

\* the call get_transcript_with_alternative_api starts with
AltFirst == IF pytube_available THEN "pytube_connect" ELSE "mirror1"

\* how many times the alternative path was entered so far
AltEntries ==
    Cardinality({ i \in DOMAIN calls :
                    /\ calls[i].src = AltFirst
                    /\ i = 1 \/ calls[i - 1].src # AltFirst })

\* the sources that have no retry loop of their own
SingleShotSrcs == PrimarySrcs \cup MirrorSrcs \cup { "pytube_captions", "scrape_parse" }

\* C27: within one request the alternative path is entered at most once, and
\* each primary sub-attempt, each mirror and the scraping tier is attempted
\* at most once; the handlers of the two structural errors cause no second
\* pass through the mirrors and scraping.
C27_AtMostOnce ==
    /\ AltEntries <= 1
    /\ \A src \in SingleShotSrcs : Count(src) <= 1
    /\ BoundedLoop("scrape_page", ScrapeMaxRetries)
    /\ \A i \in DOMAIN calls : \A j \in DOMAIN calls :
         (i < j /\ Tier(calls[i].src) = "Scraping") => Tier(calls[j].src) = "Scraping"

C27_Witness ==
    /\ structural = { "NoTranscriptFound" }
    /\ pytube_available
    /\ AltEntries = 1
    /\ SingleShotSrcs \subseteq Srcs
    /\ Last(calls) = Call("scrape_parse", FALSE)
    /\ outcomes = << Raised("ValueError", MsgNoTranscript) >>

\* how many calls of external sources the request made so far
ExternalCalls == Cardinality({ i \in DOMAIN calls : calls[i].src \in ExternalSrcs })

\* one pass through every tier with each retry loop run to its maximum: the
\* three primary sub-attempts, the pytube connections and the caption read,
\* the mirrors, the page fetches and the page scan
MaxExternalCalls ==
    Cardinality(PrimarySrcs) + (PytubeMaxRetries + 1) + Len(Mirrors) + (ScrapeMaxRetries + 1)

TierRank(t) ==
    CASE t = "CacheCheck" -> 0
      [] t = "Primary" -> 1
      [] t = "Pytube" -> 2
      [] t = "Mirrors" -> 3
      [] t = "Scraping" -> 4

\* no call of a tier follows a call of a later tier
NoTierReentered ==
    \A i \in DOMAIN calls : \A j \in DOMAIN calls :
        i < j => TierRank(Tier(calls[i].src)) <= TierRank(Tier(calls[j].src))

\* C23: when every external call eventually returns or raises, every request
\* eventually reaches a return or a raise, after at most one pass through
\* every tier with each retry loop run to its maximum; no tier is re-entered.
C23_Termination ==
    /\ <>(pc = "done" /\ Len(outcomes) = 1)
    /\ [](ExternalCalls <= MaxExternalCalls /\ NoTierReentered)

C23_Witness ==
    /\ pc = "done"
    /\ ExternalCalls = MaxExternalCalls
    /\ Len(sleeps) = (PytubeMaxRetries - 1) + (ScrapeMaxRetries - 1)
    /\ Len(outcomes) = 1

\* the outcome of a request with local state c when it runs alone: fixed by
\* its URL, by the static table and by the last answer a source gave it
SoloOutcome(c) ==
    IF ~c.extracted.ok THEN Raised("ValueError", MsgInvalidUrl)
    ELSE IF c.extracted.id \in CachedIds
    THEN Returned(CACHED_TRANSCRIPTS[c.extracted.id], c.extracted.id)
    ELSE IF ~Last(c.calls).ok THEN Raised("ValueError", MsgNoTranscript)
    ELSE LET src == Last(c.calls).src
             text == CASE src \in PrimarySrcs -> Combine(c.resp.segs)
                       [] src = "pytube_captions" -> PytubeResult(c.resp)
                       [] src = "mirror1" -> ExtractText(1, c.resp.data)
                       [] src = "mirror2" -> ExtractText(2, c.resp.data)
                       [] src = "mirror3" -> ExtractText(3, c.resp.data)
                       [] src = "scrape_parse" -> ScrapedText(c.resp)
         IN  Returned(text, c.extracted.id)

\* the requests of the process
Requests == { Context } \cup (IF parked = Idle THEN {} ELSE { parked })

\* a finished request delivered what it delivers when it runs alone
AsIfAlone == \A c \in Requests : c.pc = "done" => c.outcomes = << SoloOutcome(c) >>

\* C22: no step adds, removes or changes an entry of the static cache, and
\* for every interleaving of two concurrent requests each request's outcome
\* is the one it has when it runs alone with the same answers of the sources.
C22_RequestIndependence ==
    /\ cache = CACHED_TRANSCRIPTS
    /\ AsIfAlone

C22_Witness ==
    /\ parked # Idle
    /\ parked.url = url
    /\ Cached
    /\ pc = "done"
    /\ parked.pc = "done"
    /\ calls = << Call("cache", TRUE) >>
    /\ parked.calls = calls
    /\ outcomes = parked.outcomes

\* the video ids a query of the store is made for
QueriedVideos == StoreVideos \cup { store[i].video_id : i \in DOMAIN store }

C25_ContributedAreListed ==
    reply.endpoint = "get_transcripts" /\ reply.status = 200 =>
        \A i \in DOMAIN store :
            store[i].video_id = reply.arg =>
                \E k \in DOMAIN reply.body : reply.body[k].id = store[i].id

\* the columns of a row
Columns == { "id", "video_id", "transcript_text", "upvotes", "is_approved",
             "created_at", "updated_at" }

\* the step is a call of the upvote endpoint
UpvoteCalled == reply'.endpoint = "upvote"

\* what an upvote call does when it may change the columns in `changed` of
\* the row it is called for: a call that returns True (200) is for a stored
\* id, adds exactly 1 to the upvotes of that row and leaves the other columns
\* of the row and every other row as they were; a call that returns False
\* (an id that is not stored, or a commit that was rolled back) answers 404
\* and leaves the store unchanged
UpvoteEffect(changed) ==
    IF reply'.status = 200
    THEN /\ reply'.arg \in RowIds
         /\ reply'.body = TRUE
         /\ DOMAIN store' = DOMAIN store
         /\ LET i == RowOf(reply'.arg)
            IN  /\ store'[i].upvotes = store[i].upvotes + 1
                /\ \A c \in Columns \ changed : store'[i][c] = store[i][c]
                /\ \A k \in DOMAIN store \ { i } : store'[k] = store[k]
    ELSE /\ reply'.status = 404
         /\ reply'.body = FALSE
         /\ store' = store

\* a call for an id that is not stored returns False
MissingIsNotFound == reply'.arg \notin RowIds => reply'.status = 404

\* no row is removed and no row's upvotes decrease
UpvotesNeverDecrease ==
    \A i \in DOMAIN store :
        i \in DOMAIN store' /\ store'[i].upvotes >= store[i].upvotes

ReturnedTrue(id) ==
    { s \in 1..MaxSessions :
        sessions[s].pc = "done" /\ sessions[s].result /\ sessions[s].id = id }

\* C29: when the concurrent upvote_transcript calls have all finished, every
\* row's upvotes equal its initial value (0 at creation) plus the number of
\* calls on it that returned True.
C29_NoLostUpvotes ==
    (\A s \in 1..MaxSessions : sessions[s].pc # "loaded") =>
        \A i \in DOMAIN store :
            store[i].upvotes = Cardinality(ReturnedTrue(store[i].id))

\* the rows the fallback may answer with for video id v: approved rows of v
\* that no approved row of v has more upvotes than
TopApproved(v) ==
    { i \in DOMAIN store :
        /\ store[i].video_id = v
        /\ store[i].is_approved
        /\ \A j \in DOMAIN store :
             store[j].video_id = v /\ store[j].is_approved =>
                 store[j].upvotes <= store[i].upvotes }

\* the fallback's rule for an answer of fetch_transcript, asserted of the
\* answers that satisfy `settled`: the store is queried exactly when
\* get_youtube_transcript raised ValueError; then an approved transcript for
\* the video id makes the answer a success carrying the approved transcript
\* with the highest upvotes for that id, and with no approved transcript the
\* answer is 400 with the original message; when get_youtube_transcript
\* succeeded its transcript is the one answered
FallbackRule(settled) ==
    reply.endpoint = "fetch" =>
        LET o == reply.youtube
            v == SplitId(reply.arg)
        IN  /\ reply.queried <=> o.kind = "raise"
            /\ o.kind = "raise" /\ settled =>
                 IF TopApproved(v) # {}
                 THEN /\ reply.status = 200
                      /\ reply.body.success
                      /\ reply.body.video_id = v
                      /\ \E i \in TopApproved(v) :
                           reply.body.transcript = store[i].transcript_text
                 ELSE /\ reply.status = 400
                      /\ reply.body = o.msg
            /\ o.kind = "return" /\ settled =>
                 /\ reply.status = 200
                 /\ reply.body.transcript = o.transcript
                 /\ reply.body.video_id = o.video_id

C31_AnsweredIdIsExtractedId ==
    (reply.endpoint = "fetch" /\ reply.status = 200) =>
        LET e == extract_video_id(reply.arg)
        IN  e.ok => reply.body.video_id = e.id

\* the call made just before call i of the request
Before(i) == IF i > 1 THEN calls[i - 1] ELSE Call("none", FALSE)

\* C32: the code after each retry loop runs only after an attempt of the loop
\* succeeded, so what it reads is bound: the captions are read only from the
\* YouTube object a connection returned, the status check sees only a fetched
\* response and the page is scanned only after a fetch that returned; when
\* every attempt raised, control is not at the code after the loop.
C32_BoundWhenRead ==
    /\ pc = "pytube_captions" =>
          /\ calls # << >>
          /\ Last(calls) = Call("pytube_connect", TRUE)
          /\ resp.kind = "youtube"
    /\ pc = "scrape_parse" =>
          /\ calls # << >>
          /\ Last(calls) = Call("scrape_page", TRUE)
          /\ resp.kind = "page"
    /\ \A i \in DOMAIN calls :
          /\ calls[i].src = "pytube_captions" => Before(i) = Call("pytube_connect", TRUE)
          /\ calls[i].src = "scrape_parse" => Before(i) = Call("scrape_page", TRUE)
    /\ (calls # << >> /\ Last(calls).src \in { "pytube_connect", "scrape_page" }
          /\ resp.kind = "exception") =>
             pc \notin { "pytube_captions", "scrape_parse" }

\* every fetch of the page raised and the request went on without scanning it
C32_Witness ==
    /\ Count("scrape_page") = ScrapeMaxRetries
    /\ Last(calls) = Call("scrape_page", FALSE)
    /\ resp.kind = "exception"
    /\ Count("pytube_connect") = PytubeMaxRetries
    /\ "pytube_captions" \notin Srcs
    /\ pc = "done"

====
